---- MODULE Spec2Model ----
(***************************************************************************)
(* Record Synchronization Layer of the patient portal: the five hooks of   *)
(* src/lib/hooks/useHealthRecord.ts (usePersonalInfo, useVitalsInfo,       *)
(* useLifestyleInfo, useHealthMetrics, useLabReports), the remote store    *)
(* they talk to, and the active-user identity of useAuth.                  *)
(*                                                                         *)
(* The hooks share no state but the active user: each has its own useState *)
(* cells and its own remote table.  A behaviour follows ONE mounted hook   *)
(* instance (variable hook, chosen in Init); the cells of the other hooks  *)
(* stay at their useState defaults.                                        *)
(*                                                                         *)
(* Every await of a handler is a suspension point, so a handler is split   *)
(* at its awaits: the synchronous prefix up to the first remote call, the  *)
(* return of the existence check, the return of the insert/update.         *)
(***************************************************************************)
EXTENDS Integers, Sequences, FiniteSets, TLC

\* ------------------------------------------------------------------ bounds
MaxCalls == 2
MaxLogins == 2
MaxClock == 2

\* ------------------------------------------------------------- identities
NoUser == "none"
Users == {"u1", "u2"}
Hooks == {"personal", "vitals", "lifestyle", "metrics", "labs"}
Slots == {1, 2}

\* JS values that are not of the column's own type
NullStr == "<null>"
Undefined == "<undefined>"
NoId == 0
PosInfinity == 1000000
NaN == 0 - 1
NullNum == 0 - 2

\* { ...a, ...b }: every key of either, b's value where b has the key
Spread(a, b) == [f \in (DOMAIN a) \cup (DOMAIN b) |->
                    IF f \in DOMAIN b THEN b[f] ELSE a[f]]

Has(r, f) == f \in DOMAIN r

\* r without the keys in fs
Without(r, fs) == [f \in (DOMAIN r) \ fs |-> r[f]]

\* ----------------------------------------------------- useState defaults
DefaultPersonalInfo ==
    [full_name |-> "", age |-> 0, gender |-> "", address |-> "",
     marital_status |-> "", children |-> 0]

DefaultVitals ==
    [height |-> 170, weight |-> 68, bmi |-> 235, blood_group |-> "A+"]

DefaultLifestyle ==
    [activity_level |-> "Moderate", smoking_status |-> "Never",
     alcohol_consumption |-> "Occasionally"]

DefaultMetrics ==
    [bloodPressure |-> [name |-> "Blood Pressure", unit |-> "mmHg",
                        normal_range |-> [min |-> 90, max |-> 120],
                        readings |-> << >>],
     heartRate |-> [name |-> "Heart Rate", unit |-> "bpm",
                    normal_range |-> [min |-> 60, max |-> 100],
                    readings |-> << >>],
     glucose |-> [name |-> "Blood Glucose", unit |-> "mg/dL",
                  normal_range |-> [min |-> 70, max |-> 100],
                  readings |-> << >>],
     weight |-> [name |-> "Weight", unit |-> "kg", readings |-> << >>]]

DefaultReports == << >>

\* ------------------------------------------------- Derived Field Engine
\* The quotient lies exactly between two tenths
BetweenTenths(height, weight) ==
    (2 * weight * 100000) % (2 * height * height) = height * height

\* heightInMeters * heightInMeters is a product of IEEE-754 doubles, and
\* height / 100 is not a binary fraction.  At these heights (of 1..250 cm,
\* those at which a quotient can lie between two tenths) the double product
\* is larger than the square it stands for, so the double quotient is
\* smaller than the quotient it stands for.  At the other such heights
\* (8, 16, 24, 32, 48, 64, 72, 88, 96, 120, 128, 200, 240) the double
\* quotient is the exact one.
SquaredHigh == {40, 56, 80, 104, 112, 136, 160}

\* (weight / (height/100)^2).toFixed(1), in tenths: toFixed gives the tenth
\* nearest to the double it is applied to, the larger one when the double
\* is exactly between two; x/0 is Infinity and 0/0 is NaN in JS.
calculateBMI(height, weight) ==
    IF height = 0
    THEN (IF weight = 0 THEN NaN ELSE PosInfinity)
    ELSE LET halfUp == (2 * weight * 100000 + height * height)
                            \div (2 * height * height)
         IN IF BetweenTenths(height, weight) /\ height \in SquaredHigh
            THEN halfUp - 1
            ELSE halfUp

\* updatedInfo.f || current: an absent (undefined) or 0 field is falsy
OrElse(updatedInfo, f, current) ==
    IF Has(updatedInfo, f) /\ updatedInfo[f] # 0 THEN updatedInfo[f] ELSE current

\* JSON.stringify of a number in a request body: Infinity and NaN become null
JsonNumber(x) == IF x \in {PosInfinity, NaN} THEN NullNum ELSE x

\* ------------------------------------------------------------ Codec
\* JSON.stringify(v): a text, a value of another type than v itself
JSONstringify(v) == [kind |-> "text", wellformed |-> TRUE, json |-> v]

\* a serialization that loses the readings
JsonDocumentNoReadings(doc) ==
    [k \in DOMAIN doc |-> [doc[k] EXCEPT !.readings = << >>]]

\* the JSON value JSON.stringify writes for a Metrics document: strings and
\* finite numbers as they are, a reading value that is NaN or Infinity as
\* null
JsonDocument(doc) ==
    [k \in DOMAIN doc |->
        [doc[k] EXCEPT !.readings =
            [i \in 1..Len(@) |-> [@[i] EXCEPT !.value = JsonNumber(@)]]]]

\* a text JSON.parse throws on
MalformedText == [kind |-> "text", wellformed |-> FALSE, json |-> << >>]

\* a JSON-typed column the store hands back already structured
Structured(v) == [kind |-> "object", json |-> v]

NullText == [kind |-> "null"]

\* typeof x === 'string'
IsText(x) == x.kind = "text"

\* JSON.parse(text): throws on a malformed text
ParseThrows(t) == ~t.wellformed

JSONparse(t) == t.json

\* ------------------------------------------------------ remote store
\* .eq('user_id', u): the rows of one user, in table order
RowsOf(rows, u) == SelectSeq(rows, LAMBDA r : r.user_id = u)

Ids(rows) == {rows[i].id : i \in 1..Len(rows)}

\* .single(): the one matching row, or error PGRST116 when there are none
\* or several
Single(rows, u) ==
    LET m == RowsOf(rows, u)
    IN IF Len(m) = 1 THEN [error |-> "none", data |-> m[1]]
       ELSE [error |-> "PGRST116", data |-> [id |-> NoId]]

\* the request body as the store receives it: numbers pass through JSON
WireRow(payload) ==
    [f \in DOMAIN payload |->
        IF f = "bmi" THEN JsonNumber(payload[f]) ELSE payload[f]]

\* insert(payload): the primary key is the payload's id when it carries
\* one, else assigned by the store; a duplicate key is an error
InsertId(payload, fresh) == IF Has(payload, "id") THEN payload.id ELSE fresh

InsertOk(rows, payload, fresh) == InsertId(payload, fresh) \notin Ids(rows)

InsertRow(payload, fresh) ==
    Spread(WireRow(payload), [id |-> InsertId(payload, fresh)])

\* update(payload).eq('id', id): sets the payload's columns on that row; a
\* change of the primary key to one already taken is an error
UpdateOk(rows, id, payload) ==
    Has(payload, "id") /\ payload.id # id => payload.id \notin Ids(rows)

UpdateRows(rows, id, payload) ==
    [i \in 1..Len(rows) |->
        IF rows[i].id = id THEN Spread(rows[i], WireRow(payload)) ELSE rows[i]]

\* delete().eq('id', id).eq('user_id', u)
DeleteRows(rows, id, u) ==
    SelectSeq(rows, LAMBDA r : ~(r.id = id /\ r.user_id = u))

\* ---------------------------------------------------------- dates
\* new Date(date).getTime(), on the dates the model uses
getTime(date) ==
    CASE date = "2024-01-01" -> 1
      [] date = "2024-01-02" -> 2
      [] date = "2024-01-03" -> 3

\* ------------------------------------------------------------ state
VARIABLES
    hook,          \* the hook instance this behaviour follows
    mounted,       \* its first render and effect have run
    user,          \* useAuth().user: the id of the active user, or NoUser
    logins,        \* auth state changes so far
    personalInfo,  \* usePersonalInfo: useState cell
    vitals,        \* useVitalsInfo: useState cell
    lifestyle,     \* useLifestyleInfo: useState cell
    heap,          \* useHealthMetrics: the MetricData objects, one document
                   \* per generation of objects (a generation is shared by
                   \* every shallow copy { ...metrics } made of it)
    metrics,       \* useHealthMetrics: useState cell, a generation of heap
    reports,       \* useLabReports: useState cell
    isLoading,     \* the hook's loading flag
    db,            \* the rows of the hook's remote table, in insert order
    nextId,        \* the next primary key the store assigns
    now,           \* Date.now()
    loads,         \* users whose fetch is awaiting the store
    ops,           \* the write handlers suspended at an await, per slot
    calls,         \* write calls made so far
    discipline,    \* how the caller issues writes: "single-flight" (each
                   \* call completes before the next starts) or
                   \* "overlapping" (a call may start while another is
                   \* suspended at an await)
    fetched,       \* the fetch that returned last: whose it was and the
                   \* error it came back with
    last           \* the outcome of the write call that completed last

vars == <<hook, mounted, user, logins, personalInfo, vitals, lifestyle, heap,
          metrics, reports, isLoading, db, nextId, now, loads, ops, calls,
          discipline, fetched, last>>

caches == <<personalInfo, vitals, lifestyle, heap, metrics, reports>>

\* what readers of the hook's Cache see
Metrics == heap[metrics]

Cache(h) ==
    CASE h = "personal" -> personalInfo
      [] h = "vitals" -> vitals
      [] h = "lifestyle" -> lifestyle
      [] h = "metrics" -> Metrics
      [] h = "labs" -> reports

Idle == [name |-> "idle"]

NoCall == [seq |-> 0, name |-> "none"]

NoFetch == [user |-> NoUser, error |-> "none"]

\* ------------------------------------------ rows present before the run
SeedId(u) == IF u = "u1" THEN 1 ELSE 2

\* the first primary key the store hands out during the run
FirstFreeId == 4

\* what the tables hold before the run comes in two variants, so that every
\* shape of column the Loader tells apart is read
SeedVariants == {1, 2}

\* readings out of date order, as another writer may have left them
SeedMetrics ==
    [DefaultMetrics EXCEPT
        !.weight.readings =
            << [id |-> <<"weight", 0>>, date |-> "2024-01-03", value |-> 70],
               [id |-> <<"weight", 0 - 1>>, date |-> "2024-01-01", value |-> 71] >>]

SeedTestResults ==
    << [id |-> "t1", testId |-> "cbc", testName |-> "Hemoglobin",
        value |-> "13.5", unit |-> "g/dL", isAbnormal |-> FALSE] >>

\* health_metrics.metrics: u1's is a well-formed text; u2's is a text that
\* does not parse, or a column the store returns already structured
SeedMetricsColumn(u, v) ==
    IF u = "u1" THEN JSONstringify(SeedMetrics)
    ELSE IF v = 1 THEN MalformedText
    ELSE Structured(SeedMetrics)

SeedRow(h, u, v) ==
    CASE h = "personal" ->
            [id |-> SeedId(u), user_id |-> u, full_name |-> "Seed " \o u,
             age |-> 40, gender |-> "F", address |-> "1 Main St",
             marital_status |-> "single", children |-> 1]
      [] h = "vitals" ->
            [id |-> SeedId(u), user_id |-> u, height |-> 180, weight |-> 81,
             bmi |-> 250, blood_group |-> "O+"]
      [] h = "lifestyle" ->
            [id |-> SeedId(u), user_id |-> u, activity_level |-> "High",
             smoking_status |-> "Former", alcohol_consumption |-> "Never"]
      [] h = "metrics" ->
            [id |-> SeedId(u), user_id |-> u,
             metrics |-> SeedMetricsColumn(u, v)]
      [] h = "labs" ->
            [id |-> SeedId(u), user_id |-> u, name |-> "CBC " \o u,
             date |-> "2024-01-01",
             status |-> IF u = "u1"
                        THEN (IF v = 1 THEN "abnormal" ELSE "normal")
                        ELSE (IF v = 1 THEN "archived" ELSE "pending"),
             fileurl |-> NullStr,
             testresults |-> IF u = "u1" THEN JSONstringify(SeedTestResults)
                             ELSE IF v = 1 THEN NullText
                             ELSE Structured(SeedTestResults)]

\* u1's second lab report: a status outside the enum (the empty string or
\* null) and test results that do not parse
SecondReport(v) ==
    [id |-> 3, user_id |-> "u1", name |-> "Urinalysis",
     date |-> "2024-01-02",
     status |-> IF v = 1 THEN "" ELSE NullStr,
     fileurl |-> "urinalysis.pdf",
     testresults |-> MalformedText]

SeedRows(h, us, v) ==
    (IF "u1" \in us THEN << SeedRow(h, "u1", v) >> ELSE << >>)
    \o (IF "u2" \in us THEN << SeedRow(h, "u2", v) >> ELSE << >>)
    \o (IF "u1" \in us /\ h = "labs" THEN << SecondReport(v) >> ELSE << >>)

\* the state after construction, for a caller of the given discipline and
\* a store seeded for one of the given sets of users
InitFor(d, seeded, variants) ==
    /\ hook \in Hooks
    /\ mounted = FALSE
    /\ user = NoUser
    /\ logins = 0
    /\ personalInfo = DefaultPersonalInfo
    /\ vitals = DefaultVitals
    /\ lifestyle = DefaultLifestyle
    /\ heap = << DefaultMetrics >>
    /\ metrics = 1
    /\ reports = DefaultReports
    /\ isLoading = TRUE
    /\ \E us \in seeded, v \in variants : db = SeedRows(hook, us, v)
    /\ nextId = FirstFreeId
    /\ now = 1
    /\ loads = {}
    /\ ops = [s \in Slots |-> Idle]
    /\ calls = 0
    /\ discipline = d
    /\ fetched = NoFetch
    /\ last = NoCall

Init == InitFor("single-flight", SUBSET Users, SeedVariants)

\* a caller that does not wait for a call to complete before the next one
OverlapInit == InitFor("overlapping", {{}, {"u1"}}, {1})

\* ------------------------------------------------- active-user identity
\* The body of useEffect(..., [user]): without a user it clears the loading
\* flag; with one it starts the fetch, which suspends at the store call.
\* an effect that raises the loading flag when it starts a fetch
RunEffectRaisesFlag(u) ==
    IF u = NoUser
    THEN /\ isLoading' = FALSE
         /\ UNCHANGED loads
    ELSE /\ loads' = loads \cup {u}
         /\ isLoading' = TRUE

RunEffect(u) ==
    IF u = NoUser
    THEN /\ isLoading' = FALSE
         /\ UNCHANGED loads
    ELSE /\ loads' = loads \cup {u}
         /\ UNCHANGED isLoading

\* First render of the hook: its effect runs with whoever is active.
Mount ==
    /\ ~mounted
    /\ mounted' = TRUE
    /\ RunEffect(user)
    /\ UNCHANGED <<hook, user, logins, caches, db, nextId, now, ops, calls,
                   discipline, fetched, last>>

\* AuthProvider's setUser (onAuthStateChange, signUp, signOut): the hook
\* re-renders and, if mounted, its effect runs again for the new user.
AuthStateChange ==
    /\ logins < MaxLogins
    /\ \E u \in Users \cup {NoUser} :
          /\ u # user
          /\ user' = u
          /\ logins' = logins + 1
          /\ IF mounted THEN RunEffect(u) ELSE UNCHANGED <<isLoading, loads>>
    /\ UNCHANGED <<hook, mounted, caches, db, nextId, now, ops, calls,
                   discipline, fetched, last>>

\* Date.now() advances (addMetricReading is its only reader)
Tick ==
    /\ hook = "metrics"
    /\ now < MaxClock
    /\ now' = now + 1
    /\ UNCHANGED <<hook, mounted, user, logins, caches, isLoading, db, nextId,
                   loads, ops, calls, discipline, fetched, last>>

\* --------------------------------------------------------------- Loader
\* The fetch of user u returns.  The store answers with a transport error
\* or with what the table holds now.
Fetched(u, failed) ==
    IF failed THEN [error |-> "transport", data |-> [id |-> NoId]]
    ELSE Single(db, u)

\* .select('*').eq('user_id', u) without .single(): no rows is no error
FetchedAll(u, failed) ==
    IF failed THEN [error |-> "transport", data |-> << >>]
    ELSE [error |-> "none", data |-> RowsOf(db, u)]

\* what is remembered of a fetch that returned
FetchOf(u, r) == [user |-> u, error |-> r.error]

LoaderFrame ==
    <<hook, mounted, user, logins, db, nextId, now, ops, calls, discipline, last>>

\* usePersonalInfo: any error (row not found included) resets the Cache
PersonalInfoAfterFetch(r, current) ==
    IF r.error # "none" THEN DefaultPersonalInfo ELSE r.data

FetchPersonalInfo ==
    /\ hook = "personal"
    /\ \E u \in loads, failed \in BOOLEAN :
          /\ loads' = loads \ {u}
          /\ personalInfo' = PersonalInfoAfterFetch(Fetched(u, failed), personalInfo)
          /\ fetched' = FetchOf(u, Fetched(u, failed))
    /\ isLoading' = FALSE
    /\ UNCHANGED <<vitals, lifestyle, heap, metrics, reports>>
    /\ UNCHANGED LoaderFrame

\* useVitalsInfo, useLifestyleInfo: an error leaves the Cache as it is
RowAfterFetch(r, current) ==
    IF r.error # "none" THEN current ELSE r.data

FetchVitalsInfo ==
    /\ hook = "vitals"
    /\ \E u \in loads, failed \in BOOLEAN :
          /\ loads' = loads \ {u}
          /\ vitals' = RowAfterFetch(Fetched(u, failed), vitals)
          /\ fetched' = FetchOf(u, Fetched(u, failed))
    /\ isLoading' = FALSE
    /\ UNCHANGED <<personalInfo, lifestyle, heap, metrics, reports>>
    /\ UNCHANGED LoaderFrame

FetchLifestyleInfo ==
    /\ hook = "lifestyle"
    /\ \E u \in loads, failed \in BOOLEAN :
          /\ loads' = loads \ {u}
          /\ lifestyle' = RowAfterFetch(Fetched(u, failed), lifestyle)
          /\ fetched' = FetchOf(u, Fetched(u, failed))
    /\ isLoading' = FALSE
    /\ UNCHANGED <<personalInfo, vitals, heap, metrics, reports>>
    /\ UNCHANGED LoaderFrame

\* useHealthMetrics: the document fetchMetrics hands to setMetrics, if any
\* (data && data.metrics; a text is parsed, a parse error is absorbed)
MetricsDecodes(r) ==
    /\ r.error = "none"
    /\ r.data.metrics.kind # "null"
    /\ IsText(r.data.metrics) => ~ParseThrows(r.data.metrics)

MetricsDecoded(r) ==
    IF IsText(r.data.metrics) THEN JSONparse(r.data.metrics)
    ELSE r.data.metrics.json

\* A handler is a closure of the render that created it: it reads the user
\* and the Cache of that render (the handlers are re-created on every
\* render, nothing is memoised or held in a ref).  A caller that takes the
\* handler from the current render for every call sees the current state;
\* a caller that issues its calls from one context (one event handler that
\* awaits a call and then makes the next) keeps using the handler of the
\* render its first call was made in.
SameContext == discipline = "same-context" /\ last.name # "none"

UserSeen == IF SameContext THEN last.user ELSE user

Rendered(cell) == IF SameContext THEN last.before ELSE cell

\* the object generation the metrics of that render refer to
RenderedGen ==
    IF SameContext /\ last.name = "addMetricReading" THEN last.new ELSE metrics

\* the generations a caller context still holds through its handler
HeldGens(closing) ==
    IF discipline = "same-context"
    THEN {o.new : o \in {o \in {last, closing} : o.name = "addMetricReading"}}
    ELSE {}

\* the generations of objects the suspended handlers other than slot s
\* still refer to (their updatedMetrics)
Referenced(s) == {ops[t].new : t \in {t \in Slots \ {s} : ops[t] # Idle}}

\* the objects that are still reachable: a generation nothing refers to any
\* more is garbage
Reachable(objs, gens) ==
    SubSeq(objs, 1, CHOOSE g \in gens \cup {0} : \A h \in gens : h <= g)

\* setMetrics(parsed): the parsed document is a generation of objects of
\* its own.  The generation the Cache held stays only while a suspended
\* handler still refers to it.
FreshObjects(objs, gen, doc) ==
    Append(Reachable(objs, Referenced(0) \cup HeldGens(last)), doc)

FetchMetrics ==
    /\ hook = "metrics"
    /\ \E u \in loads, failed \in BOOLEAN :
          LET r == Fetched(u, failed)
          IN /\ loads' = loads \ {u}
             /\ fetched' = FetchOf(u, r)
             /\ IF MetricsDecodes(r)
                THEN /\ heap' = FreshObjects(heap, metrics, MetricsDecoded(r))
                     /\ metrics' = Len(heap')
                ELSE UNCHANGED <<heap, metrics>>
    /\ isLoading' = FALSE
    /\ UNCHANGED <<personalInfo, vitals, lifestyle, reports>>
    /\ UNCHANGED LoaderFrame

\* a normalizer that only casts the remote value
NormalizeStatusCast(status) == status

\* a normalizer that trusts no remote value
NormalizeStatusAllPending(status) == "pending"

\* useLabReports: Enum Normalizer and test-result decode of one fetched row
NormalizeStatus(status) ==
    IF status \in {"normal", "abnormal", "pending"} THEN status ELSE "pending"

\* item.fileurl || undefined
FileUrlOf(fileurl) == IF fileurl \in {NullStr, ""} THEN Undefined ELSE fileurl

\* a decode with no try/catch around JSON.parse
TestResultsDecodeUnguarded(testresults) == testresults.kind # "null"

\* testResults stays undefined for a null column and for a text that does
\* not parse
TestResultsDecode(testresults) ==
    /\ testresults.kind # "null"
    /\ IsText(testresults) => ~ParseThrows(testresults)

DecodeTestResults(testresults) ==
    IF IsText(testresults) THEN JSONparse(testresults) ELSE testresults.json

\* an optional property: left out of the record when undefined
Optional(present, f, v) == IF present THEN f :> v ELSE << >>

TransformRow(item) ==
    Spread(Spread([id |-> item.id, name |-> item.name, date |-> item.date,
                   status |-> NormalizeStatus(item.status)],
                  Optional(FileUrlOf(item.fileurl) # Undefined, "fileUrl",
                           item.fileurl)),
           Optional(TestResultsDecode(item.testresults), "testResults",
                    DecodeTestResults(item.testresults)))

TransformRows(rows) == [i \in 1..Len(rows) |-> TransformRow(rows[i])]

FetchLabReports ==
    /\ hook = "labs"
    /\ \E u \in loads, failed \in BOOLEAN :
          /\ loads' = loads \ {u}
          /\ reports' = IF failed THEN reports ELSE TransformRows(RowsOf(db, u))
          /\ fetched' = FetchOf(u, FetchedAll(u, failed))
    /\ isLoading' = FALSE
    /\ UNCHANGED <<personalInfo, vitals, lifestyle, heap, metrics>>
    /\ UNCHANGED LoaderFrame

\* ---------------------------------------------------- write handlers
\* The caller's inputs
PersonalUpdates ==
    { [full_name |-> "Ann"],
      [age |-> 30, children |-> 2],
      [gender |-> "M", user_id |-> "u2"] }

VitalsUpdates ==
    { [height |-> 160],
      [weight |-> 0],
      [height |-> 0, blood_group |-> "B+"],
      [weight |-> 90, bmi |-> 300] }

LifestyleUpdates ==
    { [activity_level |-> "Low"],
      [smoking_status |-> "Current", alcohol_consumption |-> "Never"],
      [alcohol_consumption |-> "Daily", user_id |-> "u1"] }

MetricKeyInputs == {"weight", "nonexistent", "constructor"}
DateInputs == {"2024-01-01", "2024-01-02"}
ValueInputs == {72, NaN}

\* the calls of addMetricReading a caller makes: each key, each date, and a
\* value that is not a finite number
MetricInputs ==
    { a \in [metricKey : MetricKeyInputs, date : DateInputs,
              value : ValueInputs] :
        /\ a.metricKey # "weight" => a.date = "2024-01-01" /\ a.value = 72
        /\ a.value = NaN => a.date = "2024-01-02" }

ReportInputs ==
    { [name |-> "Lipid panel", date |-> "2024-01-02", status |-> "normal"],
      [name |-> "Thyroid", date |-> "2024-01-03", status |-> "pending",
       fileUrl |-> "thyroid.pdf",
       testResults |-> << [id |-> "t2", testId |-> "tsh", testName |-> "TSH",
                           value |-> "9.1", unit |-> "mIU/L",
                           isAbnormal |-> TRUE] >>] }

\* if (!user) ... : the guard every write handler opens with
AuthenticatedAlways(u) == TRUE

Authenticated(u) == u # NoUser

\* A caller starts a call only when its discipline allows it
CanStart(s) ==
    /\ mounted
    /\ calls < MaxCalls
    /\ ops[s] = Idle
    /\ discipline \in {"single-flight", "same-context"} =>
          s = 1 /\ \A t \in Slots : ops[t] = Idle
    /\ discipline = "overlapping" => \A t \in Slots : t < s => ops[t] # Idle

\* what the caller remembers of the call that completed before: what it
\* asked for and what it got
Earlier(outcome) ==
    IF outcome.name = "none" THEN [name |-> "none"]
    ELSE [seq |-> outcome.seq, name |-> outcome.name, user |-> outcome.user,
          arg |-> outcome.arg, ret |-> outcome.ret]

\* what a completed call leaves for its caller and for the sink
Outcome(op, ret, toasts, at) ==
    [seq |-> op.seq, name |-> op.name, user |-> op.user, arg |-> op.arg,
     ret |-> ret, toasts |-> toasts, issued |-> op.issued, at |-> at,
     before |-> op.before, new |-> op.new, prev |-> Earlier(last)]

NewOp(name, u, arg, before, new, pc, issued) ==
    [seq |-> calls + 1, name |-> name, user |-> u, arg |-> arg,
     before |-> before, new |-> new, pc |-> pc, issued |-> issued]

\* if (!user) { toast(...); return; } of the three update handlers: the
\* result is undefined
RejectUpdate(name, arg, before) ==
    Outcome(NewOp(name, NoUser, arg, before, before, "auth", << >>),
            "undefined", << "destructive" >>, "auth")

\* the catch block: toast "... failed", return false
Failed(op, at) == Outcome(op, "false", << "destructive" >>, at)

\* the end of the try block: toast, return true
Succeeded(op) == Outcome(op, "true", << "default" >>, "done")

SelectId(u) == [call |-> "select", user_id |-> u]

CallFrame == <<hook, mounted, user, logins, isLoading, db, nextId, now, loads,
               discipline, fetched>>

\* the synchronous prefix of an update handler of a single-row channel, up
\* to the existence check it awaits
UpsertCall(s, name, arg, before, newInfo) ==
    /\ CanStart(s)
    /\ calls' = calls + 1
    /\ IF ~Authenticated(UserSeen)
       THEN /\ last' = RejectUpdate(name, arg, before)
            /\ UNCHANGED ops
       ELSE /\ ops' = [ops EXCEPT ![s] =
                        NewOp(name, UserSeen, arg, before, newInfo, "check",
                              << SelectId(UserSeen) >>)]
            /\ UNCHANGED last
    /\ UNCHANGED caches
    /\ UNCHANGED CallFrame

NewInfoUserIdFirst(current, updatedInfo, u) ==
    Spread(Spread(current, [user_id |-> u]), updatedInfo)

NewInfoCacheWins(current, updatedInfo, u) ==
    Spread(Spread(updatedInfo, current), [user_id |-> u])

\* { ...personalInfo, ...updatedInfo, user_id: user.id }
NewInfo(current, updatedInfo, u) ==
    Spread(Spread(current, updatedInfo), [user_id |-> u])

UpdatePersonalInfo ==
    /\ hook = "personal"
    /\ \E s \in Slots, updatedInfo \in PersonalUpdates :
          UpsertCall(s, "updatePersonalInfo", updatedInfo,
                     Rendered(personalInfo),
                     NewInfo(Rendered(personalInfo), updatedInfo, UserSeen))

\* { ...vitals, ...updatedInfo, bmi: newBMI, user_id: user.id } with newBMI
\* from updatedInfo.height || vitals.height and the same for weight
NewVitals(current, updatedInfo, u) ==
    LET newHeight == OrElse(updatedInfo, "height", current.height)
        newWeight == OrElse(updatedInfo, "weight", current.weight)
        newBMI == calculateBMI(newHeight, newWeight)
    IN Spread(Spread(current, updatedInfo), [bmi |-> newBMI, user_id |-> u])

UpdateVitalsInfo ==
    /\ hook = "vitals"
    /\ \E s \in Slots, updatedInfo \in VitalsUpdates :
          UpsertCall(s, "updateVitalsInfo", updatedInfo, Rendered(vitals),
                     NewVitals(Rendered(vitals), updatedInfo, UserSeen))

UpdateLifestyleInfo ==
    /\ hook = "lifestyle"
    /\ \E s \in Slots, updatedInfo \in LifestyleUpdates :
          UpsertCall(s, "updateLifestyleInfo", updatedInfo,
                     Rendered(lifestyle),
                     NewInfo(Rendered(lifestyle), updatedInfo, UserSeen))

\* ------------------------------------------------- Append/Sort Engine
\* a sort that leaves the readings in the order it found them
SortByDateNone(readings) == readings

\* readings.sort((a, b) => time(a.date) - time(b.date)): a stable sort
RECURSIVE InsertByDate(_, _)
InsertByDate(sorted, x) ==
    IF sorted = << >> THEN << x >>
    ELSE IF getTime(sorted[Len(sorted)].date) <= getTime(x.date)
         THEN Append(sorted, x)
         ELSE Append(InsertByDate(SubSeq(sorted, 1, Len(sorted) - 1), x),
                     sorted[Len(sorted)])

RECURSIVE SortByDate(_)
SortByDate(readings) ==
    IF readings = << >> THEN << >>
    ELSE InsertByDate(SortByDate(SubSeq(readings, 1, Len(readings) - 1)),
                      readings[Len(readings)])

\* `${metricKey}${Date.now()}`
ReadingId(metricKey, t) == <<metricKey, t>>

\* updatedMetrics[metricKey].readings = [...readings, newReading], sorted
WithReading(doc, metricKey, date, value, t) ==
    [doc EXCEPT ![metricKey].readings =
        SortByDate(Append(@, [id |-> ReadingId(metricKey, t), date |-> date,
                              value |-> value]))]

\* The property names every object inherits from Object.prototype
\* (constructor, toString, valueOf, hasOwnProperty, ...): one stands for all
ObjectPrototypeKeys == {"constructor"}

\* updatedMetrics[metricKey] is truthy: the document's own entry, or what
\* the object inherits under that name (the property read walks the
\* prototype chain; the entries of a document are objects, never falsy)
HasProperty(doc, metricKey) ==
    metricKey \in DOMAIN doc \/ metricKey \in ObjectPrototypeKeys

\* The MetricData objects after the synchronous prefix of addMetricReading.
\* updatedMetrics = { ...metrics } copies the mapping, not the MetricData
\* objects: the assignment to updatedMetrics[metricKey].readings writes the
\* object the Cache holds too.  Under an inherited name it writes the
\* inherited object, which is no part of any document.
ObjectsAfterAppend(objs, gen, metricKey, date, value, t) ==
    IF metricKey \in DOMAIN objs[gen]
    THEN [objs EXCEPT ![gen] = WithReading(objs[gen], metricKey, date, value, t)]
    ELSE objs

AddMetricReading ==
    /\ hook = "metrics"
    /\ \E s \in Slots, arg \in MetricInputs :
          LET metricKey == arg.metricKey
              date == arg.date
              value == arg.value
              op == NewOp("addMetricReading", UserSeen, arg,
                          heap[RenderedGen], RenderedGen, "check", << >>)
          IN /\ CanStart(s)
             /\ calls' = calls + 1
             /\ IF ~Authenticated(UserSeen)
                THEN /\ last' = Failed(op, "auth")
                     /\ UNCHANGED <<ops, heap>>
                ELSE IF ~HasProperty(heap[RenderedGen], metricKey)
                THEN /\ last' = Failed(op, "metric")
                     /\ UNCHANGED <<ops, heap>>
                ELSE /\ heap' = ObjectsAfterAppend(heap, RenderedGen,
                                                   metricKey, date, value, now)
                     /\ ops' = [ops EXCEPT ![s] =
                                    [op EXCEPT !.issued =
                                        << SelectId(UserSeen) >>]]
                     /\ UNCHANGED last
    /\ UNCHANGED <<personalInfo, vitals, lifestyle, metrics, reports>>
    /\ UNCHANGED CallFrame

\* ------------------------------------------- existence check returns
IsUpsert(op) ==
    op.name \in {"updatePersonalInfo", "updateVitalsInfo",
                 "updateLifestyleInfo", "addMetricReading"}

\* the body the handler sends: the merged record, or for Metrics the
\* document serialized now
UpsertPayload(op, existingId, objs) ==
    IF op.name = "addMetricReading"
    THEN (IF existingId # NoId
          THEN [metrics |-> JSONstringify(JsonDocument(objs[op.new]))]
          ELSE [user_id |-> op.user,
                metrics |-> JSONstringify(JsonDocument(objs[op.new]))])
    ELSE op.new

WriteCallAlwaysInsert(op, existingId, objs) ==
    [call |-> "insert", id |-> NoId,
     payload |-> UpsertPayload(op, NoId, objs)]

\* if (existingData?.id) update(...).eq('id', existingData.id) else insert
WriteCall(op, existingId, objs) ==
    IF existingId # NoId
    THEN [call |-> "update", id |-> existingId,
          payload |-> UpsertPayload(op, existingId, objs)]
    ELSE [call |-> "insert", id |-> NoId,
          payload |-> UpsertPayload(op, existingId, objs)]

\* checkError && checkError.code !== 'PGRST116'
CheckThrows(r) == r.error \notin {"none", "PGRST116"}

ExistenceCheckReturn ==
    \E s \in Slots, failed \in BOOLEAN :
        LET op == ops[s]
            r == Fetched(op.user, failed)
        IN /\ op # Idle
           /\ op.pc = "check"
           /\ IF CheckThrows(r)
              THEN /\ last' = Failed(op, "check")
                   /\ ops' = [ops EXCEPT ![s] = Idle]
              ELSE /\ ops' = [ops EXCEPT ![s] =
                               [op EXCEPT !.pc = "write",
                                          !.issued = Append(@,
                                              WriteCall(op, r.data.id, heap))]]
                   /\ UNCHANGED last
           /\ UNCHANGED caches
           /\ UNCHANGED <<calls>>
           /\ UNCHANGED CallFrame

\* ---------------------------------------------- insert/update returns
\* a store with an atomic "insert, or update on conflict by user identity"
RowsAfterWriteOnConflict(rows, w, fresh) ==
    IF w.call = "insert"
    THEN (IF \E i \in 1..Len(rows) : rows[i].user_id = w.payload.user_id
          THEN [i \in 1..Len(rows) |->
                  IF rows[i].user_id = w.payload.user_id
                  THEN Spread(rows[i], WireRow(w.payload)) ELSE rows[i]]
          ELSE Append(rows, InsertRow(w.payload, fresh)))
    ELSE UpdateRows(rows, w.id, w.payload)

\* the store's answer to the insert or update the handler issued
WriteOk(rows, w, fresh, failed) ==
    /\ ~failed
    /\ IF w.call = "insert" THEN InsertOk(rows, w.payload, fresh)
       ELSE UpdateOk(rows, w.id, w.payload)

RowsAfterWrite(rows, w, fresh) ==
    IF w.call = "insert" THEN Append(rows, InsertRow(w.payload, fresh))
    ELSE UpdateRows(rows, w.id, w.payload)

FreshAfterWrite(w, fresh) ==
    IF w.call = "insert" /\ ~Has(w.payload, "id") THEN fresh + 1 ELSE fresh

CommitCacheOptimistic(current, new, ok) == new

\* if (result.error) throw result.error; setX(newX): the Cache is replaced
\* only past the throw
CommitCache(current, new, ok) == IF ok THEN new ELSE current

UpsertWriteReturn ==
    \E s \in Slots, failed \in BOOLEAN :
        LET op == ops[s]
            w == op.issued[Len(op.issued)]
            ok == WriteOk(db, w, nextId, failed)
        IN /\ op # Idle
           /\ op.pc = "write"
           /\ IsUpsert(op)
           /\ db' = IF ok THEN RowsAfterWrite(db, w, nextId) ELSE db
           /\ nextId' = IF ok THEN FreshAfterWrite(w, nextId) ELSE nextId
           /\ personalInfo' = IF op.name = "updatePersonalInfo"
                              THEN CommitCache(personalInfo, op.new, ok)
                              ELSE personalInfo
           /\ vitals' = IF op.name = "updateVitalsInfo"
                        THEN CommitCache(vitals, op.new, ok)
                        ELSE vitals
           /\ lifestyle' = IF op.name = "updateLifestyleInfo"
                           THEN CommitCache(lifestyle, op.new, ok)
                           ELSE lifestyle
           /\ metrics' = IF op.name = "addMetricReading"
                         THEN CommitCache(metrics, op.new, ok)
                         ELSE metrics
           /\ heap' = IF op.name = "addMetricReading"
                      THEN Reachable(heap, Referenced(s) \cup {metrics'}
                                           \cup HeldGens(op))
                      ELSE heap
           /\ last' = IF ok THEN Succeeded(op) ELSE Failed(op, "write")
           /\ ops' = [ops EXCEPT ![s] = Idle]
           /\ UNCHANGED reports
           /\ UNCHANGED <<hook, mounted, user, logins, isLoading, now, loads,
                          calls, discipline, fetched>>

\* ------------------------------------------------------- lab reports
\* the row addLabReport sends: fileUrl || null, testResults serialized
NewReport(report, u) ==
    [name |-> report.name, date |-> report.date, status |-> report.status,
     fileurl |-> IF Has(report, "fileUrl") /\ report.fileUrl # ""
                 THEN report.fileUrl ELSE NullStr,
     testresults |-> IF Has(report, "testResults")
                     THEN JSONstringify(report.testResults) ELSE NullText,
     user_id |-> u]

\* data[0] back in the interface's shape: the status is cast, not checked
TransformInserted(row) ==
    Spread(Spread([id |-> row.id, name |-> row.name, date |-> row.date,
                   status |-> row.status],
                  Optional(FileUrlOf(row.fileurl) # Undefined, "fileUrl",
                           row.fileurl)),
           Optional(row.testresults.kind # "null", "testResults",
                    DecodeTestResults(row.testresults)))

AddLabReport ==
    /\ hook = "labs"
    /\ \E s \in Slots, report \in ReportInputs :
          LET op == NewOp("addLabReport", UserSeen, report,
                          Rendered(reports), NewReport(report, UserSeen),
                          "write", << >>)
          IN /\ CanStart(s)
             /\ calls' = calls + 1
             /\ IF ~Authenticated(UserSeen)
                THEN /\ last' = Failed(op, "auth")
                     /\ UNCHANGED ops
                ELSE /\ ops' = [ops EXCEPT ![s] =
                                 [op EXCEPT !.issued =
                                    << [call |-> "insert", id |-> NoId,
                                        payload |-> op.new] >>]]
                     /\ UNCHANGED last
    /\ UNCHANGED caches
    /\ UNCHANGED CallFrame

\* setReports([...reports, transformedReport]) with the reports of the
\* render the handler was created in
AddLabReportReturn ==
    \E s \in Slots, failed \in BOOLEAN :
        LET op == ops[s]
            w == op.issued[Len(op.issued)]
            ok == WriteOk(db, w, nextId, failed)
        IN /\ op # Idle
           /\ op.name = "addLabReport"
           /\ db' = IF ok THEN RowsAfterWrite(db, w, nextId) ELSE db
           /\ nextId' = IF ok THEN FreshAfterWrite(w, nextId) ELSE nextId
           /\ reports' = IF ok
                         THEN Append(op.before,
                                     TransformInserted(InsertRow(w.payload, nextId)))
                         ELSE reports
           /\ last' = IF ok THEN Succeeded(op) ELSE Failed(op, "write")
           /\ ops' = [ops EXCEPT ![s] = Idle]
           /\ UNCHANGED <<personalInfo, vitals, lifestyle, heap, metrics>>
           /\ UNCHANGED <<hook, mounted, user, logins, isLoading, now, loads,
                          calls, discipline, fetched>>

\* reports.filter(report => report.id !== id)
WithoutReport(list, id) == SelectSeq(list, LAMBDA r : r.id # id)

\* if (!user) return false: no notification on this path
DeleteLabReport ==
    /\ hook = "labs"
    /\ \E s \in Slots, id \in 1..(nextId - 1) :
          LET op == NewOp("deleteLabReport", UserSeen, id,
                          Rendered(reports), Rendered(reports), "write", << >>)
          IN /\ CanStart(s)
             /\ calls' = calls + 1
             /\ IF ~Authenticated(UserSeen)
                THEN /\ last' = Outcome(op, "false", << >>, "auth")
                     /\ UNCHANGED ops
                ELSE /\ ops' = [ops EXCEPT ![s] =
                                 [op EXCEPT !.issued =
                                    << [call |-> "delete", id |-> id,
                                        user_id |-> UserSeen] >>]]
                     /\ UNCHANGED last
    /\ UNCHANGED caches
    /\ UNCHANGED CallFrame

DeleteLabReportReturn ==
    \E s \in Slots, failed \in BOOLEAN :
        LET op == ops[s]
            w == op.issued[Len(op.issued)]
        IN /\ op # Idle
           /\ op.name = "deleteLabReport"
           /\ db' = IF failed THEN db ELSE DeleteRows(db, w.id, w.user_id)
           /\ reports' = IF failed THEN reports
                         ELSE WithoutReport(op.before, w.id)
           /\ last' = IF failed THEN Failed(op, "write") ELSE Succeeded(op)
           /\ ops' = [ops EXCEPT ![s] = Idle]
           /\ UNCHANGED <<personalInfo, vitals, lifestyle, heap, metrics>>
           /\ UNCHANGED <<hook, mounted, user, logins, isLoading, nextId, now,
                          loads, calls, discipline, fetched>>

\* ------------------------------------------------------ specification
Next ==
    \/ Mount
    \/ AuthStateChange
    \/ Tick
    \/ FetchPersonalInfo
    \/ FetchVitalsInfo
    \/ FetchLifestyleInfo
    \/ FetchMetrics
    \/ FetchLabReports
    \/ UpdatePersonalInfo
    \/ UpdateVitalsInfo
    \/ UpdateLifestyleInfo
    \/ AddMetricReading
    \/ ExistenceCheckReturn
    \/ UpsertWriteReturn
    \/ AddLabReport
    \/ AddLabReportReturn
    \/ DeleteLabReport
    \/ DeleteLabReportReturn

Spec == Init /\ [][Next]_vars

\* The same layer under a caller that lets calls overlap: nothing in the
\* handlers refuses a call while another one is suspended.
OverlapSpec == OverlapInit /\ [][Next]_vars

\* the program driven by a caller that issues its calls one after the
\* other from one context
SameContextInit == InitFor("same-context", {{}, {"u1"}}, {1})

SameContextSpec == SameContextInit /\ [][Next]_vars

\* The Derived Field Engine on its own: the arguments it is applied to and
\* the value it returns, held in the vitals record
BmiHeights == {0, 150, 155, 160, 165, 170, 175, 180, 185, 190, 200}

BmiWeights == {45, 48, 50, 60, 68, 72, 80, 81, 90, 100}

BmiInit == InitFor("single-flight", {{}}, {1}) /\ hook = "vitals"

ComputeBMI ==
    /\ \E height \in BmiHeights, weight \in BmiWeights :
          vitals' = [vitals EXCEPT !.height = height, !.weight = weight,
                                   !.bmi = calculateBMI(height, weight)]
    /\ UNCHANGED <<hook, mounted, user, logins, personalInfo, lifestyle, heap,
                   metrics, reports, isLoading, db, nextId, now, loads, ops,
                   calls, discipline, fetched, last>>

BmiNext == ComputeBMI

BmiSpec == BmiInit /\ [][BmiNext]_vars

\* The remote store answers every fetch: a fetch the effect started does
\* return, with data or with an error.
LiveSpec ==
    /\ Spec
    /\ WF_vars(FetchPersonalInfo)
    /\ WF_vars(FetchVitalsInfo)
    /\ WF_vars(FetchLifestyleInfo)
    /\ WF_vars(FetchMetrics)
    /\ WF_vars(FetchLabReports)

\* ============================================================ claims
UpdateNames ==
    {"updatePersonalInfo", "updateVitalsInfo", "updateLifestyleInfo"}

\* a step in which a write call completes
Completes == last'.seq # last.seq

\* a step taken by a write handler (a call, or the return of an await)
HandlerStep == ops' # ops \/ last' # last

\* C1: on the single-row channels Personal Info, Vitals and Lifestyle, no
\* step of an update call that does not end in success changes the Cache
\* (so a call failing at the existence check or at the insert/update leaves
\* the Cache as it was), and a call that failed at the existence check has
\* issued nothing but that check.
C1_FailedUpdateKeepsCache ==
    [][ /\ (HandlerStep /\ hook \in {"personal", "vitals", "lifestyle"}
            /\ ~(Completes /\ last'.ret = "true"))
            => UNCHANGED <<personalInfo, vitals, lifestyle>>
        /\ (Completes /\ last'.name \in UpdateNames /\ last'.at = "check")
            => last'.issued = << SelectId(last'.user) >> ]_vars

\* C1 witness: an update failed at its insert/update after computing a
\* merged value that differs from the Cache, and the Cache is the old one
C1_Witness ==
    /\ last.name \in UpdateNames
    /\ last.at = "write"
    /\ last.ret = "false"
    /\ Without(last.new, {"user_id"}) # Without(last.before, {"user_id"})
    /\ Cache(hook) = last.before

\* C2: when addMetricReading with a declared key fails at the existence
\* check or at the insert/update, and no Loader replaced the Cache during
\* the call, the Metrics Cache is exactly what it was when the call began.
C2_FailedAddKeepsMetrics ==
    [][ (/\ Completes
         /\ last'.name = "addMetricReading"
         /\ last'.at \in {"check", "write"}
         /\ metrics = last'.new)
        => Metrics' = last'.before ]_vars

\* C3: a write call made with no active user issues no remote call and
\* changes neither the Cache nor the store.
C3_NoUserNoRemoteCall ==
    [][ (Completes /\ last'.user = NoUser)
        => /\ last'.issued = << >>
           /\ last'.at = "auth"
           /\ UNCHANGED <<caches, db, ops>> ]_vars

\* C3 witness: a call made with no user has completed
C3_Witness ==
    /\ last.name \in (UpdateNames \cup {"addMetricReading", "addLabReport",
                                         "deleteLabReport"})
    /\ last.user = NoUser
    /\ last.issued = << >>

\* C4: every completed write call returned true or false: false on every
\* failure, true only when the remote write succeeded.
C4_ReturnsBoolean ==
    last.name # "none" =>
        /\ last.ret \in {"true", "false"}
        /\ last.at # "done" => last.ret = "false"
        /\ last.ret = "true" => last.at = "done"

\* C5: every completed write call sent exactly one notification: of
\* failure severity when it did not succeed, of success only when the
\* remote write succeeded.
C5_OneNotification ==
    last.name # "none" =>
        /\ Len(last.toasts) = 1
        /\ last.ret # "true" => last.toasts[1] = "destructive"
        /\ last.ret = "true" => last.toasts[1] = "default" /\ last.at = "done"

\* the insert or update a handler issued after its existence check
WriteOf(issued) == issued[Len(issued)]

\* C6: an upsert by user U issues an update exactly when the existence
\* check found U's row, against that row's id, and otherwise one insert
\* carrying user_id = U; every row a successful upsert adds or changes
\* carries user_id = U, whatever user_id the partial update supplied.
C6_UpsertTargetsOwnRow ==
    [][ \A s \in Slots :
          (ops[s] # Idle /\ IsUpsert(ops[s])) =>
            LET U == ops[s].user
                mine == RowsOf(db, U)
            IN /\ (ops[s].pc = "check" /\ ops'[s] # Idle /\ ops'[s].pc = "write") =>
                     /\ Len(ops'[s].issued) = 2
                     /\ IF Len(mine) = 1
                        THEN /\ WriteOf(ops'[s].issued).call = "update"
                             /\ WriteOf(ops'[s].issued).id = mine[1].id
                        ELSE /\ WriteOf(ops'[s].issued).call = "insert"
                             /\ WriteOf(ops'[s].issued).payload.user_id = U
               /\ (ops[s].pc = "write" /\ ops'[s] = Idle) =>
                     \A i \in 1..Len(db') :
                        (i > Len(db) \/ db'[i] # db[i]) => db'[i].user_id = U ]_vars

\* C6 witness: an update went through for a partial update that supplied
\* another user's id, and the row still belongs to the caller
C6_Witness ==
    /\ last.name \in UpdateNames
    /\ last.ret = "true"
    /\ WriteOf(last.issued).call = "update"
    /\ Has(last.arg, "user_id") /\ last.arg.user_id # last.user
    /\ \E i \in 1..Len(db) :
          db[i].id = WriteOf(last.issued).id /\ db[i].user_id = last.user

\* C7: under single-flight use, starting from at most one row per user,
\* the table of a single-row channel never holds two rows of one user.
C7_OneRowPerUser ==
    hook # "labs" => \A u \in Users : Len(RowsOf(db, u)) <= 1

\* C7 witness: a row this layer inserted has since been updated in place
C7_Witness ==
    /\ hook # "labs"
    /\ last.name # "none"
    /\ last.ret = "true"
    /\ WriteOf(last.issued).call = "update"
    /\ WriteOf(last.issued).id >= FirstFreeId
    /\ Len(RowsOf(db, last.user)) = 1

\* C8: after every successful updateVitalsInfo the bmi in the Cache and
\* in the payload sent is computeBMI of the height and weight in that
\* same value.
C8_BmiAlwaysDerived ==
    [][ (Completes /\ last'.name = "updateVitalsInfo" /\ last'.ret = "true")
        => /\ vitals'.bmi = calculateBMI(vitals'.height, vitals'.weight)
           /\ LET sent == WriteOf(last'.issued).payload
              IN sent.bmi = calculateBMI(sent.height, sent.weight) ]_vars

\* the fields the layer itself decides
Decided == {"bmi", "user_id"}

FreshLoad(h, u, rows) ==
    CASE h = "personal" ->
            PersonalInfoAfterFetch(Single(rows, u), DefaultPersonalInfo)
      [] h = "vitals" -> RowAfterFetch(Single(rows, u), DefaultVitals)
      [] h = "lifestyle" -> RowAfterFetch(Single(rows, u), DefaultLifestyle)
      [] h = "metrics" ->
            IF MetricsDecodes(Single(rows, u))
            THEN MetricsDecoded(Single(rows, u)) ELSE DefaultMetrics
      [] h = "labs" -> TransformRows(RowsOf(rows, u))

\* the same Cache but for the store-assigned row id
Equivalent(h, a, b) ==
    IF h \in {"personal", "vitals", "lifestyle"}
    THEN Without(a, {"id"}) = Without(b, {"id"})
    ELSE a = b

\* C10: with one user, a write call that starts with the Cache equivalent
\* to a fresh load of the store ends with the Cache equivalent to a fresh
\* load of the store, whether the call succeeded or failed.
C10_CacheMirrorsStore ==
    [][ \A s \in Slots :
          (/\ ops[s] # Idle
           /\ ops'[s] = Idle
           /\ logins <= 1
           /\ Equivalent(hook, ops[s].before, FreshLoad(hook, ops[s].user, db)))
          => Equivalent(hook, Cache(hook)', FreshLoad(hook, ops[s].user, db')) ]_vars

\* the dates of a reading sequence never go back
NonDecreasing(readings) ==
    \A i \in 1..(Len(readings) - 1) :
        getTime(readings[i].date) <= getTime(readings[i + 1].date)

C12_UnknownKeyRejected ==
    [][ (/\ Completes
         /\ last'.name = "addMetricReading"
         /\ last'.user # NoUser
         /\ last'.arg.metricKey \notin DOMAIN last'.before)
        => /\ last'.ret = "false"
           /\ last'.issued = << >>
           /\ DOMAIN Metrics' = DOMAIN last'.before
           /\ Metrics' = last'.before ]_vars

\* no two readings of the sequence carry the same id
DistinctIds(readings) ==
    \A i, j \in 1..Len(readings) : i # j => readings[i].id # readings[j].id

\* C13: in every reachable state the readings of one metric of the Cache
\* have pairwise distinct ids, clock advancing between two calls or not.
C13_DistinctReadingIds ==
    \A k \in DOMAIN Metrics : DistinctIds(Metrics[k].readings)

\* the values of the status union type
StatusEnum == {"normal", "abnormal", "pending"}

\* the remote row a cached report was made from
RowOfReport(report) ==
    LET hits == SelectSeq(db, LAMBDA r : r.id = report.id)
    IN hits[1]

\* C14: in every reachable state every lab report in the Cache has a
\* status that is normal, abnormal or pending, whether the Loader placed
\* it or addLabReport did from the row the insert returned.
C14_StatusInEnum ==
    \A i \in 1..Len(reports) : reports[i].status \in StatusEnum

\* C14 witness: the Cache holds a report the Loader read with a status
\* outside the enum, and after it a report addLabReport placed
C14_Witness ==
    /\ last.name = "addLabReport"
    /\ last.ret = "true"
    /\ Len(reports) >= 2
    /\ reports[Len(reports)].id >= FirstFreeId
    /\ \E i \in 1..(Len(reports) - 1) :
          /\ reports[i].id < FirstFreeId
          /\ reports[i].id \in Ids(db)
          /\ RowOfReport(reports[i]).status \notin StatusEnum

\* C15: a Loader step either leaves the cached collection or places one
\* report per fetched row, in row order, whose status is the remote status
\* when that is exactly normal or abnormal and pending for any other value.
C15_LoaderNormalizesStatus ==
    [][ (hook = "labs" /\ loads' # loads /\ loads' \subseteq loads)
        => \/ reports' = reports
           \/ \E u \in loads \ loads' :
                LET rows == RowsOf(db, u)
                IN /\ Len(reports') = Len(rows)
                   /\ \A i \in 1..Len(rows) :
                        /\ reports'[i].id = rows[i].id
                        /\ reports'[i].status =
                              IF rows[i].status \in {"normal", "abnormal"}
                              THEN rows[i].status ELSE "pending" ]_vars

\* C15 witness: the Loader placed a report whose remote status was kept
\* and one whose remote status (empty, null or unknown) became pending
C15_Witness ==
    /\ hook = "labs"
    /\ last = NoCall
    /\ \E i, j \in 1..Len(reports) :
          /\ reports[i].id \in Ids(db)
          /\ reports[j].id \in Ids(db)
          /\ RowOfReport(reports[i]).status \in {"normal", "abnormal"}
          /\ reports[i].status = RowOfReport(reports[i]).status
          /\ RowOfReport(reports[j]).status \in {"", NullStr, "archived"}
          /\ reports[j].status = "pending"

\* a step in which a deleteLabReport issued by an active user completes
DeleteCompletes ==
    Completes /\ last'.name = "deleteLabReport" /\ last'.user # NoUser

\* C16: a deleteLabReport(id) by active user U removes no remote row of
\* another user, and when id is not the id of one of U's own remote rows
\* the call leaves the cached report collection as it is.
C16_DeleteScopedToUser ==
    [][ DeleteCompletes
        => /\ \A V \in Users \ {last'.user} : RowsOf(db', V) = RowsOf(db, V)
           /\ last'.arg \notin Ids(RowsOf(db, last'.user))
                 => reports' = reports ]_vars

\* C17: whenever deleteLabReport(id) returns true, exactly one entry of the
\* cached collection, the one whose id is the argument, has been removed
\* and the others are kept in their order.
C17_DeleteRemovesExactlyOne ==
    [][ (DeleteCompletes /\ last'.ret = "true")
        => /\ Cardinality({i \in 1..Len(reports) : reports[i].id = last'.arg}) = 1
           /\ reports' = WithoutReport(reports, last'.arg) ]_vars

\* the useState default of a hook's Cache
DefaultCache(h) ==
    CASE h = "personal" -> DefaultPersonalInfo
      [] h = "vitals" -> DefaultVitals
      [] h = "lifestyle" -> DefaultLifestyle
      [] h = "metrics" -> DefaultMetrics
      [] h = "labs" -> DefaultReports

\* the liveness half of C18: once the hook is mounted its loading flag is
\* eventually false, whatever the fetch returns
C18_LoadingEventuallyCleared == mounted ~> ~isLoading

\* the other half of C18: while no user is active the flag is cleared, no
\* fetch is started, and a Cache at its default stays at its default
C18_IdleWithoutUser ==
    /\ [](mounted /\ user = NoUser => ~isLoading)
    /\ [][ user' = NoUser => loads' \subseteq loads ]_vars
    /\ [][ (/\ user = NoUser
            /\ user' = NoUser
            /\ Cache(hook) = DefaultCache(hook))
           => Cache(hook)' = DefaultCache(hook) ]_vars

\* C18: for every channel the loading flag of a mounted hook eventually
\* becomes false whether the load succeeds, fails remotely or fails to
\* decode, provided the remote call returns; and while no user is active
\* the Loader issues no remote call, the flag is cleared at once and the
\* Cache stays at its default.
C18_LoaderFailOpen ==
    /\ C18_LoadingEventuallyCleared
    /\ C18_IdleWithoutUser

\* a step in which a fetch of the Loader returns
LoaderCompletes == loads' # loads /\ loads' \subseteq loads

\* C19: when the Loader completes for the active user and the store holds
\* no record of that user (row not found), the Cache holds the channel's
\* default, also when the previous active user did have a record.
C19_DefaultWhenNoRecord ==
    [][ (/\ LoaderCompletes
         /\ fetched'.user = user
         /\ fetched'.error # "transport"
         /\ RowsOf(db, user) = << >>)
        => Cache(hook)' = DefaultCache(hook) ]_vars

\* a text column JSON.parse throws on
Malformed(column) == IsText(column) /\ ParseThrows(column)

\* C20: a malformed text read by the Loader is absorbed.  For Metrics the
\* Cache keeps the value it had; for Lab Reports every fetched row is
\* placed, the malformed one without test results, the others with theirs;
\* in both cases the loading flag is cleared.
C20_MalformedTextAbsorbed ==
    [][ (LoaderCompletes /\ fetched'.error = "none")
        => LET u == fetched'.user
               rows == RowsOf(db, u)
           IN /\ (hook = "metrics" /\ Malformed(rows[1].metrics))
                    => Metrics' = Metrics /\ ~isLoading'
              /\ (hook = "labs"
                  /\ \E i \in 1..Len(rows) : Malformed(rows[i].testresults))
                    => /\ ~isLoading'
                       /\ Len(reports') = Len(rows)
                       /\ \A i \in 1..Len(rows) :
                            /\ reports'[i].id = rows[i].id
                            /\ reports'[i].name = rows[i].name
                            /\ IF Malformed(rows[i].testresults)
                                  \/ rows[i].testresults.kind = "null"
                               THEN ~Has(reports'[i], "testResults")
                               ELSE /\ Has(reports'[i], "testResults")
                                    /\ reports'[i].testResults
                                          = rows[i].testresults.json ]_vars

\* C20 witness: the Loader read two reports of one user, one with test
\* results that parse and one with test results that do not, and placed
\* both, the second without test results
C20_Witness ==
    /\ hook = "labs"
    /\ ~isLoading
    /\ fetched = [user |-> "u1", error |-> "none"]
    /\ Len(reports) = 2
    /\ Has(reports[1], "testResults")
    /\ reports[2].id \in Ids(db)
    /\ Malformed(RowOfReport(reports[2]).testresults)
    /\ ~Has(reports[2], "testResults")

\* a Metrics document whose reading values are all finite numbers
WellFormedDocument(doc) ==
    \A k \in DOMAIN doc : \A i \in 1..Len(doc[k].readings) :
        doc[k].readings[i].value \notin {NaN, PosInfinity, NullNum}

\* the Cache the Loader makes of a health_metrics column
LoadedDocument(column) ==
    MetricsDecoded([error |-> "none", data |-> [metrics |-> column]])

\* the test results the Loader makes of a health_lab_reports column
LoadedTestResults(column) ==
    TransformRow([id |-> 0, name |-> "", date |-> "", status |-> "",
                  fileurl |-> NullStr, testresults |-> column]).testResults

\* the Metrics or test-results column a write has just put in flight
SendsColumn(s) ==
    /\ ops'[s] # Idle
    /\ ops'[s] # ops[s]
    /\ Len(ops'[s].issued) >= 1
    /\ WriteOf(ops'[s].issued).call \in {"insert", "update"}

UpsertSucceeds(s) ==
    /\ ops[s] # Idle
    /\ IsUpsert(ops[s])
    /\ ops[s].pc = "write"
    /\ last'.seq = ops[s].seq
    /\ last'.ret = "true"

\* the call that completed last was a successful upsert of the same user
\* that issued the given kind of write
RacedWith(s, call) ==
    /\ last.name # "none"
    /\ IsUpsert(last)
    /\ last.ret = "true"
    /\ last.user = ops[s].user
    /\ WriteOf(last.issued).call = call
    /\ WriteOf(ops[s].issued).call = call

\* the row with the given id
RowWithId(rows, id) == SelectSeq(rows, LAMBDA r : r.id = id)[1]

\* C22: nothing in the layer guards overlapping upserts of one user on one
\* single-row channel.  When two of them both decided to insert (each ran its
\* existence check before the other's insert completed) and both inserts
\* succeed, the user has two rows; when an update that was called first
\* completes after a later one, every field the later call wrote and the
\* earlier one did not supply is overwritten by the stale value the earlier
\* one carried.
C22_OverlapRaces ==
    [][ \A s \in Slots :
          /\ (UpsertSucceeds(s) /\ RacedWith(s, "insert"))
                => Len(RowsOf(db', ops[s].user)) >= 2
          /\ (/\ UpsertSucceeds(s)
              /\ RacedWith(s, "update")
              /\ ops[s].name \in UpdateNames
              /\ ops[s].seq < last.seq)
                => \A g \in (DOMAIN last.arg) \ (DOMAIN ops[s].arg \cup Decided) :
                      /\ RowWithId(db', WriteOf(ops[s].issued).id)[g]
                            = ops[s].before[g]
                      /\ Cache(hook)'[g] = ops[s].before[g] ]_vars

\* C22 witness: two overlapping upserts of one user both succeeded and the
\* user has two rows (duplicate insert)
C22_Witness ==
    /\ hook # "labs"
    /\ last.name # "none"
    /\ last.ret = "true"
    /\ last.prev.name # "none"
    /\ last.prev.ret = "true"
    /\ last.prev.user = last.user
    /\ WriteOf(last.issued).call = "insert"
    /\ Len(RowsOf(db, last.user)) = 2

\* the other reachable outcome of C22: the call that was made first
\* completed last and took back a field the later call had written
C22_LostUpdate ==
    /\ last.name \in UpdateNames
    /\ last.ret = "true"
    /\ last.prev.name \in UpdateNames
    /\ last.prev.ret = "true"
    /\ last.prev.user = last.user
    /\ last.seq < last.prev.seq
    /\ WriteOf(last.issued).call = "update"
    /\ \E g \in (DOMAIN last.prev.arg) \ (DOMAIN last.arg \cup Decided) :
          /\ last.prev.arg[g] # last.before[g]
          /\ RowWithId(db, WriteOf(last.issued).id)[g] = last.before[g]
          /\ Cache(hook)[g] = last.before[g]

\* the call that completes now succeeded, and so did the call of the same
\* user that the caller awaited before it
SecondSucceeds ==
    /\ Completes
    /\ last'.ret = "true"
    /\ last'.prev.name # "none"
    /\ last'.prev.ret = "true"
    /\ last'.prev.user = last'.user
    /\ last'.prev.seq < last'.seq
    /\ user' = last'.user

\* the reports in a collection that were added by addLabReport
Added(list) == {i \in 1..Len(list) : list[i].id >= FirstFreeId}

\* C23: when a caller awaits write A to success and only then issues write
\* B from the same context, after B succeeds the Cache and the store hold
\* A's change followed by B's: every field A set and B did not still has
\* A's value, and for Lab Reports both added reports are in the collection
C23_SequencedInCallOrder ==
    [][ SecondSucceeds =>
          /\ last'.name \in UpdateNames =>
                \A g \in (DOMAIN last'.prev.arg) \ (DOMAIN last'.arg \cup Decided) :
                    /\ Cache(hook)'[g] = last'.prev.arg[g]
                    /\ \A i \in 1..Len(RowsOf(db', last'.user)) :
                          RowsOf(db', last'.user)[i][g] = last'.prev.arg[g]
          /\ (last'.name = "addLabReport" /\ last'.prev.name = "addLabReport") =>
                /\ Cardinality(Added(reports')) = 2
                /\ Cardinality(Added(RowsOf(db', last'.user))) = 2 ]_vars

\* C24: computeBMI(height, weight) equals weight / (height/100)^2 rounded to
\* one decimal place (half away from zero) for every height > 0 of the
\* input set, in tenths and in integer arithmetic: the result r is the
\* integer with r - 1/2 <= 100000 * weight / height^2 < r + 1/2; and
\* computeBMI(170, 68) is 23.5
C24_BmiRoundedToOneDecimal ==
    /\ calculateBMI(170, 68) = 235
    /\ vitals.height > 0 =>
          LET square == vitals.height * vitals.height
              scaled == 2 * 100000 * vitals.weight
          IN /\ 2 * vitals.bmi * square <= scaled + square
             /\ scaled - square < 2 * vitals.bmi * square

\* the readings of one date, in the order they are held
OfDate(readings, date) == SelectSeq(readings, LAMBDA r : r.date = date)

Dates(readings) == {readings[i].date : i \in 1..Len(readings)}

\* C25: a successful addMetricReading(metricKey, date, value) adds exactly
\* one reading {id, date, value} to that metric; every reading held before
\* is still held unchanged, readings of one date keep their order with the
\* new one after them, and the set of keys and every other metric are as
\* they were
C25_AddReadingFrame ==
    [][ (Completes /\ last'.name = "addMetricReading" /\ last'.ret = "true") =>
          LET before == last'.before
              after == Metrics'
              arg == last'.arg
          IN /\ DOMAIN after = DOMAIN before
             /\ arg.metricKey \in DOMAIN before
             /\ \A k \in DOMAIN before \ {arg.metricKey} : after[k] = before[k]
             /\ arg.metricKey \in DOMAIN before =>
                  LET old == before[arg.metricKey].readings
                      new == after[arg.metricKey].readings
                      mine == OfDate(new, arg.date)
                  IN /\ after[arg.metricKey]
                          = [before[arg.metricKey] EXCEPT !.readings = new]
                     /\ Len(new) = Len(old) + 1
                     /\ \A d \in Dates(old) \ {arg.date} :
                          OfDate(new, d) = OfDate(old, d)
                     /\ SubSeq(mine, 1, Len(mine) - 1) = OfDate(old, arg.date)
                     /\ mine[Len(mine)].date = arg.date
                     /\ mine[Len(mine)].value = arg.value ]_vars

\* the remote insert issued by addLabReport succeeds in this step
InsertSucceeds ==
    /\ Completes
    /\ last'.name = "addLabReport"
    /\ Len(db') = Len(db) + 1

\* C26: whenever the remote insert issued by addLabReport succeeds, the call
\* returns true and the cached collection becomes the previous collection
\* with exactly one report appended, whose id is the one the store assigned
\* and whose other fields are those submitted; no entry is changed or
\* dropped
C26_AddAppendsOneReport ==
    [][ InsertSucceeds =>
          /\ last'.ret = "true"
          /\ Len(reports') = Len(reports) + 1
          /\ SubSeq(reports', 1, Len(reports)) = reports
          /\ reports'[Len(reports')].id = db'[Len(db')].id
          /\ reports'[Len(reports')].id \notin Ids(db)
          /\ Without(reports'[Len(reports')], {"id"}) = last'.arg ]_vars

\* the row a report shown in the Cache was loaded from belongs to user a
ReportOf(report, a) ==
    \E j \in 1..Len(db) : db[j].id = report.id /\ db[j].user_id = a

\* the Cache holds values of the record of user a: the record's identity
\* (single-row channels), the document of a's row and of no other row
\* (Metrics), a report of a's rows (Lab Reports)
HoldsRecordOf(a) ==
    CASE hook \in {"personal", "vitals", "lifestyle"} ->
            Has(Cache(hook), "user_id") /\ Cache(hook).user_id = a
      [] hook = "metrics" ->
            LET Holds(j) ==
                    LET r == [error |-> "none", data |-> db[j]]
                    IN MetricsDecodes(r) /\ MetricsDecoded(r) = Metrics
            IN /\ Metrics # DefaultMetrics
               /\ \E j \in 1..Len(db) : db[j].user_id = a /\ Holds(j)
               /\ \A j \in 1..Len(db) : db[j].user_id # a => ~Holds(j)
      [] hook = "labs" ->
            \E i \in 1..Len(reports) : ReportOf(reports[i], a)

\* the Loader run for the active user completes in this step
OwnLoadCompletes ==
    /\ LoaderCompletes
    /\ user' # NoUser
    /\ fetched'.user = user'

\* a handler of the active user, whose load has completed, sends a write in
\* this step
SendsWrite(s) ==
    /\ ops'[s] # Idle
    /\ ops'[s] # ops[s]
    /\ ops'[s].pc = "write"
    /\ ops'[s].user = user
    /\ user \notin loads
    /\ fetched.user = user

\* C27: records never cross user identities: once the Loader of the active
\* user B has completed, the Cache holds no value of another user's record,
\* and no write of B sends a value (a row id included) of another user's
\* record
C27_NoCrossUserData ==
    /\ [][ OwnLoadCompletes =>
             \A a \in Users \ {user'} : ~HoldsRecordOf(a)' ]_vars
    /\ [][ \A s \in Slots : SendsWrite(s) =>
             LET w == WriteOf(ops'[s].issued)
             IN (w.call \in {"insert", "update"} /\ Has(w.payload, "id")) =>
                   \A j \in 1..Len(db) :
                       db[j].id = w.payload.id => db[j].user_id = user ]_vars

\* the user identity changes from none to present under a mounted hook
SignsIn == mounted /\ user = NoUser /\ user' # NoUser

\* C28: the loading flag is monotone: it is true until the hook's first
\* effect has run, and once it is false no Loader run, user-identity change
\* or write operation sets it to true again; so the Loader run that starts
\* when the user identity changes from none to present runs with the flag
\* already false
C28_LoadingFlagMonotone ==
    /\ [](~mounted => isLoading)
    /\ [][~isLoading => ~isLoading']_vars
    /\ [][SignsIn => (user' \in loads' /\ ~isLoading /\ ~isLoading')]_vars

\* C28 witness: the fetch for a user who signed in under the mounted hook is
\* in flight, no fetch has returned yet, and the flag is false
C28_Witness ==
    /\ mounted
    /\ user # NoUser
    /\ user \in loads
    /\ fetched = NoFetch
    /\ logins > 0
    /\ ~isLoading

====
